---- MODULE Spec2Model ----
(***************************************************************************)
(* Model of the reconfiguration core of jmatth/rdk:                        *)
(*   - utils/rtrie/rtrie.go            the reversed (suffix) trie          *)
(*   - resource/resource_graph_storage.go   the resource index on top of it*)
(*   - config/diff.go                  the configuration diff engine       *)
(*                                                                         *)
(* A trie is modelled as a function from node paths to nodes.  The path of *)
(* a node is the sequence of bytes followed from the root, so the node of  *)
(* key k sits at path Reverse(k).  The children map of the node at path p  *)
(* is the set of bytes c with Append(p, c) in the domain.                  *)
(***************************************************************************)
EXTENDS Integers, Sequences, FiniteSets, Bags, TLC

\* the trie specification: a Trie[int], the map it stands for, the last call
\* and what it returned
VARIABLES trie, stored, call, ret, found, yielded, panicked

\* the resource index specification: the resourcesMap, the handles it should
\* hold, the number of mutating calls so far, the last call and its results
VARIABLES index, live, nops, icall, iret, iyielded, ipanicked

\* the diffAll specification: one call of diffAll on two item lists
VARIABLES dleft, dright, dtracked, dout, dpc

\* the DiffConfigs specification: two configuration snapshots and their Diff
VARIABLES cleft, cright, cdiff, cpc

\* DiffConfigs on the network and sensitive part of two snapshots
VARIABLES nleft, nright, nreveal, nfails, ndiff, npc

trieVars == <<trie, stored, call, ret, found, yielded, panicked>>

diffAllVars == <<dleft, dright, dtracked, dout, dpc>>

diffConfigsVars == <<cleft, cright, cdiff, cpc>>

networkVars == <<nleft, nright, nreveal, nfails, ndiff, npc>>

indexVars == <<index, live, nops, icall, iret, iyielded, ipanicked>>

----------------------------------------------------------------------------
(* Input domains of the trie specification.                                *)

\* "a" "b" "c" as bytes: keys "c", "bc", "abc", "ab" of TestFindSuffix and
\* the empty key.  "c" and "bc" are suffixes of "abc", "ab" is a prefix of it.
Keys == {<<>>, <<99>>, <<98, 99>>, <<97, 98, 99>>, <<97, 98>>}

MaxValue == 1

\* int values stored in the trie; 0 is the zero value of the type.
Values == 0..MaxValue

ZeroInt == 0

----------------------------------------------------------------------------
(* rtrie.go                                                                *)

NilNode == [ok |-> FALSE, path |-> <<>>]

NodeRef(p) == [ok |-> TRUE, path |-> p]

\* &trieNode[T]{children: make(...)}: no contents, contents is the zero value
NewNode(zero) == [hasContents |-> FALSE, contents |-> zero]

\* NewTrie: a root with an empty children map
NewTrie(zero) == (<<>> :> NewNode(zero))

\* the loop of findNode: i runs from len(key)-1 down to 0 (here Len(key)..1)
RECURSIVE findNodeLoop(_, _, _, _, _, _)
findNodeLoop(t, key, i, curr, create, zero) ==
    IF i < 1
    THEN [trie |-> t, node |-> NodeRef(curr)]
    ELSE LET char == key[i]
             child == Append(curr, char)
         IN IF child \in DOMAIN t
            THEN findNodeLoop(t, key, i - 1, child, create, zero)
            ELSE IF ~create
                 THEN [trie |-> t, node |-> NilNode]
                 ELSE findNodeLoop(t @@ (child :> NewNode(zero)), key, i - 1,
                                   child, create, zero)

findNode(t, key, create, zero) ==
    IF Len(key) < 1
    THEN [trie |-> t, node |-> NilNode]
    ELSE findNodeLoop(t, key, Len(key), <<>>, create, zero)

Get(t, key, zero) ==
    LET node == findNode(t, key, FALSE, zero).node
    IN IF ~node.ok
       THEN [val |-> zero, ok |-> FALSE]
       ELSE [val |-> t[node.path].contents, ok |-> t[node.path].hasContents]

\* Set dereferences the node findNode returns without a nil check: for the
\* empty key the node is nil and the call panics before anything is written.
Set(t, key, val, zero) ==
    LET f == findNode(t, key, TRUE, zero)
    IN IF ~f.node.ok
       THEN [trie |-> t, val |-> zero, ok |-> FALSE, panic |-> TRUE]
       ELSE [trie  |-> [f.trie EXCEPT ![f.node.path] =
                            [hasContents |-> TRUE, contents |-> val]],
             val   |-> f.trie[f.node.path].contents,
             ok    |-> f.trie[f.node.path].hasContents,
             panic |-> FALSE]

\* a Delete that also drops the subtree below the node
DeletePruning(t, key, zero) ==
    LET node == findNode(t, key, FALSE, zero).node
    IN IF ~node.ok
       THEN [trie |-> t, val |-> zero, ok |-> FALSE, panic |-> FALSE]
       ELSE LET keep == {p \in DOMAIN t :
                           ~(Len(p) > Len(node.path)
                             /\ SubSeq(p, 1, Len(node.path)) = node.path)}
            IN [trie  |-> [p \in keep |->
                             IF p = node.path THEN NewNode(zero) ELSE t[p]],
                val   |-> t[node.path].contents,
                ok    |-> t[node.path].hasContents,
                panic |-> FALSE]

Delete(t, key, zero) ==
    LET node == findNode(t, key, FALSE, zero).node
    IN IF ~node.ok
       THEN [trie |-> t, val |-> zero, ok |-> FALSE, panic |-> FALSE]
       ELSE [trie  |-> [t EXCEPT ![node.path] =
                            [hasContents |-> FALSE, contents |-> zero]],
             val   |-> t[node.path].contents,
             ok    |-> t[node.path].hasContents,
             panic |-> FALSE]

\* compute() is called only when the key is absent; newVal is what it returns
ComputeIfAbsent(t, key, newVal, zero) ==
    LET existing == Get(t, key, zero)
    IN IF existing.ok
       THEN [trie |-> t, val |-> existing.val, ok |-> TRUE, panic |-> FALSE]
       ELSE LET s == Set(t, key, newVal, zero)
            IN [trie |-> s.trie, val |-> newVal, ok |-> FALSE, panic |-> s.panic]

\* the loop of FindSuffix: node = node.children[query[i]]; break on nil
RECURSIVE FindSuffixLoop(_, _, _, _, _)
FindSuffixLoop(t, query, i, node, result) ==
    IF i < 1
    THEN result
    ELSE LET next == Append(node, query[i])
         IN IF next \notin DOMAIN t
            THEN result
            ELSE FindSuffixLoop(t, query, i - 1, next,
                                IF t[next].hasContents
                                THEN Append(result, t[next].contents)
                                ELSE result)

\* a FindSuffix that stops at the first node without contents
FindSuffixStopAtGap(t, query) ==
    LET RECURSIVE loop(_, _, _)
        loop(i, node, result) ==
            IF i < 1
            THEN result
            ELSE LET next == Append(node, query[i])
                 IN IF next \notin DOMAIN t \/ ~t[next].hasContents
                    THEN result
                    ELSE loop(i - 1, next, Append(result, t[next].contents))
    IN loop(Len(query), <<>>, <<>>)

FindSuffix(t, query) == FindSuffixLoop(t, query, Len(query), <<>>, <<>>)

\* string(prefix) for a byte: the UTF-8 encoding of the code point, one byte
\* below 0x80 and two bytes from 0x80 on
ByteToString(b) ==
    IF b < 128 THEN <<b>> ELSE <<192 + (b \div 64), 128 + (b % 64)>>

\* children of the node at path p, as the bytes that lead to them
ChildBytes(t, p) == {c \in 0..255 : Append(p, c) \in DOMAIN t}

\* walk: the (key, value) pairs yielded below a node, as a bag (the order of
\* range over the children map is unspecified); the consumer never stops early
RECURSIVE walk(_, _, _)
walk(t, node, key) ==
    LET own == IF t[node].hasContents
               THEN SetToBag({[key |-> key, val |-> t[node].contents]})
               ELSE EmptyBag
        RECURSIVE below(_)
        below(cs) ==
            IF cs = {}
            THEN EmptyBag
            ELSE LET prefix == CHOOSE c \in cs : TRUE
                 IN walk(t, Append(node, prefix), ByteToString(prefix) \o key)
                      (+) below(cs \ {prefix})
    IN own (+) below(ChildBytes(t, node))

TrieAll(t) == walk(t, <<>>, <<>>)

----------------------------------------------------------------------------
(* The trie driven by its operations.  stored is the map the trie stands   *)
(* for: the value of the most recent Set of each key that no Delete        *)
(* followed.  An unrecovered panic ends the program.                       *)

NotFound(zero) == [val |-> zero, ok |-> FALSE]

nonTrieVars == <<indexVars, diffAllVars, diffConfigsVars, networkVars>>

nonIndexVars == <<trieVars, diffAllVars, diffConfigsVars, networkVars>>

nonDiffAllVars == <<trieVars, indexVars, diffConfigsVars, networkVars>>

nonDiffConfigsVars == <<trieVars, indexVars, diffAllVars, networkVars>>

nonNetworkVars == <<trieVars, indexVars, diffAllVars, diffConfigsVars>>

NoCall == [op |-> "none", key |-> <<>>, val |-> ZeroInt]

TrieInit ==
    /\ trie = NewTrie(ZeroInt)
    /\ stored = [k \in Keys |-> NotFound(ZeroInt)]
    /\ call = NoCall
    /\ ret = NotFound(ZeroInt)
    /\ found = <<>>
    /\ yielded = EmptyBag
    /\ panicked = FALSE

TrieIdle ==
    /\ trie = NewTrie(ZeroInt)
    /\ stored = <<>>
    /\ call = NoCall
    /\ ret = NotFound(ZeroInt)
    /\ found = <<>>
    /\ yielded = EmptyBag
    /\ panicked = FALSE

SetOp(k, v) ==
    LET r == Set(trie, k, v, ZeroInt)
    IN /\ ~panicked /\ UNCHANGED nonTrieVars
       /\ trie' = r.trie
       /\ stored' = IF r.panic THEN stored
                    ELSE [stored EXCEPT ![k] = [val |-> v, ok |-> TRUE]]
       /\ call' = [op |-> "Set", key |-> k, val |-> v]
       /\ ret' = [val |-> r.val, ok |-> r.ok]
       /\ panicked' = r.panic
       /\ found' = <<>>
       /\ yielded' = EmptyBag

GetOp(k) ==
    /\ ~panicked /\ UNCHANGED nonTrieVars
    /\ call' = [op |-> "Get", key |-> k, val |-> ZeroInt]
    /\ ret' = Get(trie, k, ZeroInt)
    /\ found' = <<>>
    /\ yielded' = EmptyBag
    /\ UNCHANGED <<trie, stored, panicked>>

DeleteOp(k) ==
    LET r == Delete(trie, k, ZeroInt)
    IN /\ ~panicked /\ UNCHANGED nonTrieVars
       /\ trie' = r.trie
       /\ stored' = [stored EXCEPT ![k] = NotFound(ZeroInt)]
       /\ call' = [op |-> "Delete", key |-> k, val |-> ZeroInt]
       /\ ret' = [val |-> r.val, ok |-> r.ok]
       /\ panicked' = r.panic
       /\ found' = <<>>
       /\ yielded' = EmptyBag

ComputeIfAbsentOp(k, v) ==
    LET r == ComputeIfAbsent(trie, k, v, ZeroInt)
    IN /\ ~panicked /\ UNCHANGED nonTrieVars
       /\ trie' = r.trie
       /\ stored' = IF r.panic \/ stored[k].ok THEN stored
                    ELSE [stored EXCEPT ![k] = [val |-> v, ok |-> TRUE]]
       /\ call' = [op |-> "ComputeIfAbsent", key |-> k, val |-> v]
       /\ ret' = [val |-> r.val, ok |-> r.ok]
       /\ panicked' = r.panic
       /\ found' = <<>>
       /\ yielded' = EmptyBag

FindSuffixOp(q) ==
    /\ ~panicked /\ UNCHANGED nonTrieVars
    /\ call' = [op |-> "FindSuffix", key |-> q, val |-> ZeroInt]
    /\ found' = FindSuffix(trie, q)
    /\ ret' = NotFound(ZeroInt)
    /\ yielded' = EmptyBag
    /\ UNCHANGED <<trie, stored, panicked>>

AllOp ==
    /\ ~panicked /\ UNCHANGED nonTrieVars
    /\ call' = [op |-> "All", key |-> <<>>, val |-> ZeroInt]
    /\ yielded' = TrieAll(trie)
    /\ ret' = NotFound(ZeroInt)
    /\ found' = <<>>
    /\ UNCHANGED <<trie, stored, panicked>>

TrieNext ==
    \/ \E k \in Keys, v \in Values : SetOp(k, v)
    \/ \E k \in Keys : GetOp(k)
    \/ \E k \in Keys : DeleteOp(k)
    \/ \E k \in Keys, v \in Values : ComputeIfAbsentOp(k, v)
    \/ \E q \in Keys : FindSuffixOp(q)
    \/ AllOp

----------------------------------------------------------------------------
(* resource_graph_storage.go                                               *)
(*                                                                         *)
(* A byAPIBucket is a function from the APIs it holds to graph buckets; a  *)
(* graphBucket is [local, remote] with remote a function from remote names *)
(* to handles.  Maps and bucket pointers are shared with the trie node     *)
(* that holds them, so a write through them is a write to the node.        *)

\* a nil *GraphNode
NilHandle == 0

NumHandles == 2

\* the non-nil *GraphNode values callers register
Handles == 1..NumHandles

\* a nil map and an empty map: no entries
EmptyMap == <<>>

MapDelete(m, k) == [x \in DOMAIN m \ {k} |-> m[x]]

MapPut(m, k, v) == (k :> v) @@ m

\* the node of a key that Get found
NodePath(t, key) == findNode(t, key, FALSE, EmptyMap).node.path

\* a PutByName that files every remote handle in the local slot
PutByNameIgnoringRemote(idx, name, node) ==
    LET c == ComputeIfAbsent(idx, name.Name, EmptyMap, EmptyMap)
    IN IF c.panic
       THEN [index |-> idx, node |-> NilHandle, panic |-> TRUE]
       ELSE LET byName == c.val
                byAPI  == IF name.API \in DOMAIN byName
                          THEN byName[name.API]
                          ELSE [local |-> NilHandle, remote |-> EmptyMap]
                path   == NodePath(c.trie, name.Name)
            IN [index |-> [c.trie EXCEPT ![path].contents =
                              MapPut(byName, name.API, [byAPI EXCEPT !.local = node])],
                node  |-> byAPI.local,
                panic |-> FALSE]

PutByName(idx, name, node) ==
    LET c == ComputeIfAbsent(idx, name.Name, EmptyMap, EmptyMap)
    IN IF c.panic
       THEN [index |-> idx, node |-> NilHandle, panic |-> TRUE]
       ELSE LET byName == c.val
                byAPI  == IF name.API \in DOMAIN byName
                          THEN byName[name.API]
                          ELSE [local |-> NilHandle, remote |-> EmptyMap]
                path   == NodePath(c.trie, name.Name)
                store(bucket) ==
                    [c.trie EXCEPT ![path].contents = MapPut(byName, name.API, bucket)]
            IN IF name.Remote = ""
               THEN [index |-> store([byAPI EXCEPT !.local = node]),
                     node  |-> byAPI.local,
                     panic |-> FALSE]
               ELSE [index |-> store([byAPI EXCEPT
                                        !.remote = MapPut(byAPI.remote, name.Remote, node)]),
                     node  |-> IF name.Remote \in DOMAIN byAPI.remote
                               THEN byAPI.remote[name.Remote]
                               ELSE NilHandle,
                     panic |-> FALSE]

GetByName(idx, name) ==
    LET g == Get(idx, name.Name, EmptyMap)
    IN IF ~g.ok
       THEN [node |-> NilHandle, ok |-> FALSE]
       ELSE IF name.API \notin DOMAIN g.val
            THEN [node |-> NilHandle, ok |-> FALSE]
            ELSE LET byNameAndAPI == g.val[name.API]
                 IN IF name.Remote = ""
                    THEN [node |-> byNameAndAPI.local,
                          ok   |-> byNameAndAPI.local # NilHandle]
                    ELSE IF name.Remote \in DOMAIN byNameAndAPI.remote
                         THEN [node |-> byNameAndAPI.remote[name.Remote], ok |-> TRUE]
                         ELSE [node |-> NilHandle, ok |-> FALSE]

\* a DeleteByName that drops the whole class bucket
DeleteByNameWholeBucket(idx, name) ==
    LET g == Get(idx, name.Name, EmptyMap)
    IN IF ~g.ok \/ name.API \notin DOMAIN g.val
       THEN idx
       ELSE LET path == NodePath(idx, name.Name)
                byName == MapDelete(g.val, name.API)
                written == [idx EXCEPT ![path].contents = byName]
            IN IF Cardinality(DOMAIN byName) < 1
               THEN Delete(written, name.Name, EmptyMap).trie
               ELSE written

DeleteByName(idx, name) ==
    LET g == Get(idx, name.Name, EmptyMap)
    IN IF ~g.ok
       THEN idx
       ELSE IF name.API \notin DOMAIN g.val
            THEN idx
            ELSE LET path == NodePath(idx, name.Name)
                     old == g.val[name.API]
                     byNameAndAPI ==
                         IF name.Remote = ""
                         THEN [old EXCEPT !.local = NilHandle]
                         ELSE [old EXCEPT !.remote = MapDelete(old.remote, name.Remote)]
                     cleared == [idx EXCEPT ![path].contents =
                                    MapPut(g.val, name.API, byNameAndAPI)]
                 IN IF byNameAndAPI.local = NilHandle
                       /\ Cardinality(DOMAIN byNameAndAPI.remote) < 1
                    THEN LET byName == MapDelete(g.val, name.API)
                             dropped == [idx EXCEPT ![path].contents = byName]
                         IN IF Cardinality(DOMAIN byName) < 1
                            THEN Delete(dropped, name.Name, EmptyMap).trie
                            ELSE dropped
                    ELSE cleared

\* Name{API: api, Remote: remote, Name: name}
newRemoteName(remote, api, name) == [Name |-> name, API |-> api, Remote |-> remote]

\* the sum of the bags f[x] over the elements x of a set
RECURSIVE BagOver(_, _)
BagOver(S, f) ==
    IF S = {}
    THEN EmptyBag
    ELSE LET x == CHOOSE y \in S : TRUE
         IN f[x] (+) BagOver(S \ {x}, f)

\* what one class bucket yields: the local entry, then each remote entry
BucketPairs(name, api, bucket) ==
    LET remotePair == [remote \in DOMAIN bucket.remote |->
            SetToBag({[name |-> newRemoteName(remote, api, name),
                       node |-> bucket.remote[remote]]})]
    IN SetToBag({[name |-> newRemoteName("", api, name), node |-> bucket.local]})
         (+) BagOver(DOMAIN bucket.remote, remotePair)

\* resourcesMap.All: the (Name, handle) pairs yielded, as a bag (the orders of
\* the three nested range loops are unspecified); the consumer never stops early
IndexAll(idx) ==
    LET entries == TrieAll(idx)
        ofEntry == [e \in BagToSet(entries) |->
            BagOver(DOMAIN e.val,
                    [api \in DOMAIN e.val |-> BucketPairs(e.key, api, e.val[api])])]
    IN BagOver(BagToSet(entries), ofEntry)

IndexKeys(idx) == {p.name : p \in BagToSet(IndexAll(idx))}

IndexValues(idx) == {p.node : p \in BagToSet(IndexAll(idx))}

----------------------------------------------------------------------------
(* The resource index driven by PutByName and DeleteByName.  live is what  *)
(* the index should hold: per Name, the handle of the most recent          *)
(* PutByName that no DeleteByName followed.                                *)

\* base names (Go strings are byte strings): the empty name, the single byte
\* 0x83, and U+0083 (bytes 0xC2 0x83), of which the former is a suffix
BaseNames == {<<>>, <<131>>, <<194, 131>>}

APIs == {"arm", "camera"}

Remotes == {"", "r1"}

Names == {[Name |-> b, API |-> a, Remote |-> r] : b \in BaseNames, a \in APIs, r \in Remotes}

NamedNames == {n \in Names : n.Name # <<>>}

MaxOps == 3

NoICall == [op |-> "none", name |-> [Name |-> <<>>, API |-> "", Remote |-> ""]]

NoNode == [node |-> NilHandle, ok |-> FALSE]

IndexInit ==
    /\ index = NewTrie(EmptyMap)
    /\ live = [n \in Names |-> NilHandle]
    /\ nops = 0
    /\ icall = NoICall
    /\ iret = NoNode
    /\ iyielded = EmptyBag
    /\ ipanicked = FALSE

IndexIdle ==
    /\ index = NewTrie(EmptyMap)
    /\ live = <<>>
    /\ nops = 0
    /\ icall = NoICall
    /\ iret = NoNode
    /\ iyielded = EmptyBag
    /\ ipanicked = FALSE

PutByNameOp(n, h) ==
    LET r == PutByName(index, n, h)
    IN /\ ~ipanicked /\ nops < MaxOps
       /\ index' = r.index
       /\ live' = IF r.panic THEN live ELSE [live EXCEPT ![n] = h]
       /\ nops' = nops + 1
       /\ icall' = [op |-> "PutByName", name |-> n]
       /\ iret' = [node |-> r.node, ok |-> r.node # NilHandle]
       /\ ipanicked' = r.panic
       /\ iyielded' = EmptyBag
       /\ UNCHANGED nonIndexVars

GetByNameOp(n) ==
    /\ ~ipanicked /\ nops < MaxOps
    /\ nops' = nops + 1
    /\ icall' = [op |-> "GetByName", name |-> n]
    /\ iret' = GetByName(index, n)
    /\ iyielded' = EmptyBag
    /\ UNCHANGED <<index, live, ipanicked>>
    /\ UNCHANGED nonIndexVars

DeleteByNameOp(n) ==
    /\ ~ipanicked /\ nops < MaxOps
    /\ index' = DeleteByName(index, n)
    /\ live' = [live EXCEPT ![n] = NilHandle]
    /\ nops' = nops + 1
    /\ icall' = [op |-> "DeleteByName", name |-> n]
    /\ iret' = NoNode
    /\ iyielded' = EmptyBag
    /\ UNCHANGED ipanicked
    /\ UNCHANGED nonIndexVars

IndexAllOp ==
    /\ ~ipanicked /\ nops < MaxOps
    /\ nops' = nops + 1
    /\ icall' = [op |-> "All", name |-> NoICall.name]
    /\ iyielded' = IndexAll(index)
    /\ iret' = NoNode
    /\ UNCHANGED <<index, live, ipanicked>>
    /\ UNCHANGED nonIndexVars

IndexNext ==
    \/ \E n \in Names, h \in Handles : PutByNameOp(n, h)
    \/ \E n \in Names : GetByNameOp(n)
    \/ \E n \in Names : DeleteByNameOp(n)
    \/ IndexAllOp

----------------------------------------------------------------------------
(* config/diff.go                                                          *)
(*                                                                         *)
(* An item of a collection is [key, val]: key is what getKey returns for   *)
(* it (Name, ResourceName(), ID) and val stands for the rest of its        *)
(* fields.  A slice index is 1-based here.                                 *)

NumKeys == 3

MaxLen == 2

ItemKeys == 1..NumKeys

\* the attributes A and B of an item
ItemVals == {"A", "B"}

Items == [key : ItemKeys, val : ItemVals]

getKey(item) == item.key

\* the Equals method of the item type: value equality
Equals(l, r) == l = r

\* an Equals-respecting diffSingle that records the left-side value
diffSingleKeepingLeft(left, right, modified) ==
    IF Equals(left, right)
    THEN [different |-> FALSE, modified |-> modified]
    ELSE [different |-> TRUE, modified |-> Append(modified, left)]

diffSingle(left, right, modified) ==
    IF Equals(left, right)
    THEN [different |-> FALSE, modified |-> modified]
    ELSE [different |-> TRUE, modified |-> Append(modified, right)]

\* the first loop of diffAll: leftM and leftIndex, later items overwriting
RECURSIVE indexLeft(_, _, _, _)
indexLeft(left, idx, leftM, leftIndex) ==
    IF idx > Len(left)
    THEN [leftM |-> leftM, leftIndex |-> leftIndex]
    ELSE LET name == getKey(left[idx])
         IN indexLeft(left, idx + 1, MapPut(leftM, name, left[idx]),
                      MapPut(leftIndex, name, idx))

\* the loop of diffAll over right; unmodified is [nil, list], a nil pointer
\* or the slice it points to
RECURSIVE diffRight(_, _, _)
diffRight(right, j, st) ==
    IF j > Len(right)
    THEN st
    ELSE LET r == right[j]
             name == getKey(r)
             ok == name \in DOMAIN st.leftM
             rest == MapDelete(st.leftM, name)
         IN IF ok
            THEN LET single == diffSingle(st.leftM[name], r, st.modified)
                 IN diffRight(right, j + 1,
                      [st EXCEPT
                         !.leftM = rest,
                         !.modified = single.modified,
                         !.different = single.different \/ st.different,
                         !.unmodified =
                             IF ~single.different /\ ~st.unmodified.nil
                             THEN [nil |-> FALSE, list |-> Append(st.unmodified.list, r)]
                             ELSE st.unmodified])
            ELSE diffRight(right, j + 1,
                      [st EXCEPT !.leftM = rest,
                                 !.added = Append(st.added, r),
                                 !.different = TRUE])

\* diffAll up to the end of the loop over right
diffAllRight(left, right, modified, added, unmodified) ==
    LET ix == indexLeft(left, 1, EmptyMap, EmptyMap)
    IN diffRight(right, 1,
                 [leftM |-> ix.leftM, leftIndex |-> ix.leftIndex,
                  modified |-> modified, added |-> added,
                  unmodified |-> unmodified, different |-> FALSE])

\* the keys range over leftM can visit after the loop over right
LeftOverKeys(left, right) ==
    DOMAIN diffAllRight(left, right, <<>>, <<>>, [nil |-> TRUE, list |-> <<>>]).leftM

\* the orders in which range can visit the keys of a map
RangeOrders(S) ==
    {o \in [1..Cardinality(S) -> S] : \A i, j \in 1..Cardinality(S) : o[i] = o[j] => i = j}

\* a sort.Ints that leaves the slice as it is
SortIntsNoop(s) == s

\* sort.Ints: ascending
SortInts(s) ==
    LET RECURSIVE insert(_, _)
        insert(sorted, x) ==
            IF sorted = <<>> THEN <<x>>
            ELSE IF x < Head(sorted) THEN <<x>> \o sorted
            ELSE <<Head(sorted)>> \o insert(Tail(sorted), x)
        RECURSIVE sortFrom(_, _)
        sortFrom(i, sorted) ==
            IF i > Len(s) THEN sorted ELSE sortFrom(i + 1, insert(sorted, s[i]))
    IN sortFrom(1, <<>>)

\* the end of diffAll, from the loop over leftM on; st is the state the loop
\* over right left behind
diffAllRemoved(left, removed, st, order) ==
    LET removedIndexes == SortInts([i \in 1..Len(order) |-> st.leftIndex[order[i]]])
    IN [different  |-> st.different \/ Len(order) > 0,
        modified   |-> st.modified,
        added      |-> st.added,
        removed    |-> removed \o [i \in 1..Len(removedIndexes) |-> left[removedIndexes[i]]],
        unmodified |-> st.unmodified]

\* diffAll; order is the order in which range visits what is left of leftM
diffAll(left, right, modified, added, removed, unmodified, order) ==
    diffAllRemoved(left, removed,
                   diffAllRight(left, right, modified, added, unmodified), order)

----------------------------------------------------------------------------
(* One call of diffAll on any two item lists, with and without a slice for *)
(* the unmodified items.                                                   *)

RECURSIVE ListsUpTo(_, _)
ListsUpTo(S, n) ==
    IF n = 0
    THEN {<<>>}
    ELSE LET shorter == ListsUpTo(S, n - 1)
         IN shorter \cup {Append(l, x) : l \in {m \in shorter : Len(m) = n - 1}, x \in S}

NoOutput ==
    [different |-> FALSE, modified |-> <<>>, added |-> <<>>, removed |-> <<>>,
     unmodified |-> [nil |-> TRUE, list |-> <<>>]]

DiffAllInit ==
    /\ dleft \in ListsUpTo(Items, MaxLen)
    /\ dright \in ListsUpTo(Items, MaxLen)
    /\ dtracked \in BOOLEAN
    /\ dout = NoOutput
    /\ dpc = "call"

DiffAllIdle ==
    /\ dleft = <<>>
    /\ dright = <<>>
    /\ dtracked = FALSE
    /\ dout = NoOutput
    /\ dpc = "idle"

DiffAllCall ==
    /\ dpc = "call"
    /\ \E order \in RangeOrders(LeftOverKeys(dleft, dright)) :
          dout' = diffAll(dleft, dright, <<>>, <<>>, <<>>,
                          [nil |-> ~dtracked, list |-> <<>>], order)
    /\ dpc' = "done"
    /\ UNCHANGED <<dleft, dright, dtracked>>
    /\ UNCHANGED nonDiffAllVars

DiffAllNext == DiffAllCall

----------------------------------------------------------------------------
(* DiffConfigs on two configuration snapshots.  A Config is its six        *)
(* collections, its Revision and its LogConfig; the Diff is Added,         *)
(* Modified, Removed, ResourcesEqual, LogEqual and UnmodifiedResources,    *)
(* with the value each diffAll call returned kept in returned.             *)

\* reflect.DeepEqual on the values of the model
DeepEqual(a, b) == a = b

\* a diffLogCfg that looks at the components only
diffLogCfgComponentsOnly(left, right, servicesDifferent, componentsDifferent) ==
    IF ~DeepEqual(left.LogConfig, right.LogConfig)
    THEN TRUE
    ELSE componentsDifferent

diffLogCfg(left, right, servicesDifferent, componentsDifferent) ==
    IF ~DeepEqual(left.LogConfig, right.LogConfig)
    THEN TRUE
    ELSE IF servicesDifferent \/ componentsDifferent
         THEN TRUE
         ELSE FALSE

NilSlice == [nil |-> TRUE, list |-> <<>>]

\* the six calls with the unmodified slice handed over whatever the revisions
diffCollectionsAlwaysTracking(left, right, orders) ==
    LET remotes == diffAll(left.Remotes, right.Remotes, <<>>, <<>>, <<>>,
                           NilSlice, orders.Remotes)
        unmodifiedResources == [nil |-> FALSE, list |-> <<>>]
        components == diffAll(left.Components, right.Components, <<>>, <<>>, <<>>,
                              unmodifiedResources, orders.Components)
        services == diffAll(left.Services, right.Services, <<>>, <<>>, <<>>,
                            components.unmodified, orders.Services)
        processes == diffAll(left.Processes, right.Processes, <<>>, <<>>, <<>>,
                             NilSlice, orders.Processes)
        packages == diffAll(left.Packages, right.Packages, <<>>, <<>>, <<>>,
                            NilSlice, orders.Packages)
        modules == diffAll(left.Modules, right.Modules, <<>>, <<>>, <<>>,
                           NilSlice, orders.Modules)
    IN [Remotes |-> remotes, Components |-> components, Services |-> services,
        Processes |-> processes, Packages |-> packages, Modules |-> modules]

\* the six diffAll calls of DiffConfigs, for given range orders of the six
\* leftM maps; components and services share the unmodified slice, which is
\* nil when the two revisions are equal
diffCollections(left, right, orders) ==
    LET remotes == diffAll(left.Remotes, right.Remotes, <<>>, <<>>, <<>>,
                           NilSlice, orders.Remotes)
        unmodifiedResources ==
            IF left.Revision # right.Revision
            THEN [nil |-> FALSE, list |-> <<>>]
            ELSE NilSlice
        components == diffAll(left.Components, right.Components, <<>>, <<>>, <<>>,
                              unmodifiedResources, orders.Components)
        services == diffAll(left.Services, right.Services, <<>>, <<>>, <<>>,
                            components.unmodified, orders.Services)
        processes == diffAll(left.Processes, right.Processes, <<>>, <<>>, <<>>,
                             NilSlice, orders.Processes)
        packages == diffAll(left.Packages, right.Packages, <<>>, <<>>, <<>>,
                            NilSlice, orders.Packages)
        modules == diffAll(left.Modules, right.Modules, <<>>, <<>>, <<>>,
                           NilSlice, orders.Modules)
    IN [Remotes |-> remotes, Components |-> components, Services |-> services,
        Processes |-> processes, Packages |-> packages, Modules |-> modules]

\* the Diff value: the lists of the six calls, the two flags, and in returned
\* what each call returned
DiffValue(left, right, d, different, logDifferent) ==
    [Left |-> left, Right |-> right,
     Added |-> [c \in DOMAIN d |-> d[c].added],
     Modified |-> [c \in DOMAIN d |-> d[c].modified],
     Removed |-> [c \in DOMAIN d |-> d[c].removed],
     ResourcesEqual |-> ~different,
     LogEqual |-> ~logDifferent,
     UnmodifiedResources |-> d.Services.unmodified.list,
     returned |-> [c \in DOMAIN d |-> d[c].different]]

\* DiffConfigs after the six calls, whose results are in d: the chain of
\* assignments to different, and the log flag
DiffConfigsFlags(left, right, d) ==
    LET different1 == d.Remotes.different
        componentsDifferent == d.Components.different
        different2 == componentsDifferent \/ different1
        servicesDifferent == d.Services.different
        different3 == servicesDifferent \/ different2
        processesDifferent == d.Processes.different \/ different3
        different4 == processesDifferent \/ different3
        packagesDifferent == d.Packages.different \/ different4
        different5 == packagesDifferent \/ different4
        different6 == d.Modules.different \/ different5
        logDifferent == diffLogCfg(left, right, servicesDifferent, componentsDifferent)
    IN DiffValue(left, right, d, different6, logDifferent)

\* a DiffConfigs whose last call overwrites the flag: different = diffAll(modules)
DiffConfigsLastWins(left, right, orders) ==
    DiffValue(left, right, diffCollections(left, right, orders),
              diffCollections(left, right, orders).Modules.different,
              diffLogCfg(left, right,
                         diffCollections(left, right, orders).Services.different,
                         diffCollections(left, right, orders).Components.different))

DiffConfigs(left, right, orders) ==
    DiffConfigsFlags(left, right, diffCollections(left, right, orders))

Collections == {"Remotes", "Components", "Services", "Processes", "Packages", "Modules"}

MaxItems == 2

\* the items of the snapshots: an item in two versions and a second item
CfgItems == {i \in Items : i.key = 1 \/ (i.key = 2 /\ i.val = "A")}

Revisions == {"rev1", "rev2"}

\* no logger patterns (a nil slice) and one pattern
LogConfigs == {<<>>, <<"debug">>}

\* the ways to fill n lists with at most budget items in all
RECURSIVE Fill(_, _)
Fill(n, budget) ==
    IF n = 0
    THEN {<<>>}
    ELSE UNION {{Append(f, l) : f \in Fill(n - 1, budget - Len(l))} :
                  l \in ListsUpTo(CfgItems, budget)}

ConfigOf(f, base, revision, logConfig) ==
    [Remotes |-> f[base + 1], Components |-> f[base + 2], Services |-> f[base + 3],
     Processes |-> f[base + 4], Packages |-> f[base + 5], Modules |-> f[base + 6],
     Revision |-> revision, LogConfig |-> logConfig]

EmptyConfig == ConfigOf([i \in 1..6 |-> <<>>], 0, "rev1", <<>>)

\* the Diff before the calls: empty lists and, in this model, no call returned
NoDiff ==
    [Left |-> EmptyConfig, Right |-> EmptyConfig,
     Added |-> [c \in Collections |-> <<>>],
     Modified |-> [c \in Collections |-> <<>>],
     Removed |-> [c \in Collections |-> <<>>],
     ResourcesEqual |-> TRUE,
     LogEqual |-> TRUE,
     UnmodifiedResources |-> <<>>,
     returned |-> [c \in Collections |-> FALSE]]

DiffConfigsInit ==
    /\ \E f \in Fill(12, MaxItems), lrev, rrev \in Revisions, llog, rlog \in LogConfigs :
          /\ cleft = ConfigOf(f, 0, lrev, llog)
          /\ cright = ConfigOf(f, 6, rrev, rlog)
    /\ cdiff = NoDiff
    /\ cpc = "call"

DiffConfigsIdle ==
    /\ cleft = EmptyConfig
    /\ cright = EmptyConfig
    /\ cdiff = NoDiff
    /\ cpc = "idle"

\* the range orders of the six leftM maps
OrdersFor(left, right) ==
    [Remotes    : RangeOrders(LeftOverKeys(left.Remotes, right.Remotes)),
     Components : RangeOrders(LeftOverKeys(left.Components, right.Components)),
     Services   : RangeOrders(LeftOverKeys(left.Services, right.Services)),
     Processes  : RangeOrders(LeftOverKeys(left.Processes, right.Processes)),
     Packages   : RangeOrders(LeftOverKeys(left.Packages, right.Packages)),
     Modules    : RangeOrders(LeftOverKeys(left.Modules, right.Modules))]

DiffConfigsCall ==
    /\ cpc = "call"
    /\ \E orders \in OrdersFor(cleft, cright) :
          cdiff' = DiffConfigs(cleft, cright, orders)
    /\ cpc' = "done"
    /\ UNCHANGED <<cleft, cright>>
    /\ UNCHANGED nonDiffConfigsVars

DiffConfigsNext == DiffConfigsCall

----------------------------------------------------------------------------
(* DiffConfigs on snapshots that hold components and services only, with   *)
(* at most MaxResources of them between the two snapshots.                 *)

MaxResources == 4

UnmodifiedInit ==
    /\ \E f \in Fill(4, MaxResources), lrev, rrev \in Revisions :
          /\ cleft = [EmptyConfig EXCEPT !.Components = f[1], !.Services = f[2],
                                         !.Revision = lrev]
          /\ cright = [EmptyConfig EXCEPT !.Components = f[3], !.Services = f[4],
                                          !.Revision = rrev]
    /\ cdiff = NoDiff
    /\ cpc = "call"

----------------------------------------------------------------------------
(* config/diff.go: the network comparison.                                 *)
(*                                                                         *)
(* Besides its six collections a Config holds Cloud (a pointer), Network   *)
(* (with the *tls.Config), Auth (the handlers) and EnableWebProfile; these *)
(* and the secrets of the remotes are the snapshot of this part of the     *)
(* model.  A pointer is a sequence: empty for nil, else of its one target. *)
(* A certificate callback is what it returns when called with nil: a       *)
(* certificate and whether the error is non-nil.                           *)

Nil == <<>>

Ptr(x) == <<x>>

\* tls.VersionTLS12 and tls.VersionTLS13
MinVersions == {771, 772}

\* what GetCertificate(nil) and GetClientCertificate(nil) can return
Resolutions ==
    {[cert |-> "certA", err |-> FALSE], [cert |-> "certB", err |-> FALSE],
     [cert |-> "certA", err |-> TRUE]}

\* the *tls.Config values: nil, or a config with both callbacks set
TLSConfigs ==
    {Nil} \cup {Ptr(t) : t \in [MinVersion : MinVersions,
                                GetCertificate : Resolutions,
                                GetClientCertificate : Resolutions]}

\* a diffTLS that does not look at the client certificates
diffTLSServerOnly(leftTLS, rightTLS) ==
    IF leftTLS = Nil /\ rightTLS = Nil THEN FALSE
    ELSE IF leftTLS = Nil \/ rightTLS = Nil THEN TRUE
    ELSE LET l == leftTLS[1]
             r == rightTLS[1]
         IN IF l.MinVersion # r.MinVersion THEN TRUE
            ELSE IF l.GetCertificate.err THEN TRUE
            ELSE IF r.GetCertificate.err THEN TRUE
            ELSE ~DeepEqual(l.GetCertificate.cert, r.GetCertificate.cert)

diffTLS(leftTLS, rightTLS) ==
    IF leftTLS = Nil /\ rightTLS = Nil THEN FALSE
    ELSE IF leftTLS = Nil \/ rightTLS = Nil THEN TRUE
    ELSE LET l == leftTLS[1]
             r == rightTLS[1]
         IN IF l.MinVersion # r.MinVersion THEN TRUE
            ELSE IF l.GetCertificate.err THEN TRUE
            ELSE IF r.GetCertificate.err THEN TRUE
            ELSE IF ~DeepEqual(l.GetCertificate.cert, r.GetCertificate.cert) THEN TRUE
            ELSE IF l.GetClientCertificate.err THEN TRUE
            ELSE IF r.GetClientCertificate.err THEN TRUE
            ELSE IF ~DeepEqual(l.GetClientCertificate.cert,
                               r.GetClientCertificate.cert) THEN TRUE
            ELSE FALSE

\* the TLS configs are compared by diffTLS and the other fields of the
\* copies deeply, with TLSConfig set to nil in both
diffNetwork(leftCopy, rightCopy) ==
    IF diffTLS(leftCopy.TLSConfig, rightCopy.TLSConfig)
    THEN TRUE
    ELSE ~DeepEqual([leftCopy EXCEPT !.TLSConfig = Nil],
                    [rightCopy EXCEPT !.TLSConfig = Nil])

diffNetworkingCfg(left, right) ==
    IF ~DeepEqual(left.Cloud, right.Cloud) THEN TRUE
    ELSE IF diffNetwork(left.Network, right.Network) THEN TRUE
    ELSE IF ~DeepEqual(left.Auth, right.Auth) THEN TRUE
    ELSE IF ~DeepEqual(left.EnableWebProfile, right.EnableWebProfile) THEN TRUE
    ELSE FALSE

----------------------------------------------------------------------------
(* config/diff.go: the pretty diff.                                        *)
(*                                                                         *)
(* The JSON text of a snapshot is the sequence of its lines, a line being  *)
(* the path of a leaf and its value as text.  A *tls.Config holds funcs    *)
(* and is not part of the text.  The text diff keeps the lines that are on *)
(* one side only.                                                          *)

Line(path, value) == [path |-> path, value |-> value]

RECURSIVE Concat(_)
Concat(ss) == IF ss = <<>> THEN <<>> ELSE Head(ss) \o Concat(Tail(ss))

\* the keys of a handler's configuration map, in the order json.Marshal
\* writes them (sorted)
HandlerKeys == <<"k1", "k2">>

BoolText(b) == IF b THEN "true" ELSE "false"

MarshalCloud(cloud) ==
    IF cloud = Nil
    THEN <<Line(<<"cloud">>, "null")>>
    ELSE LET c == cloud[1]
             at == <<"cloud", "location_secrets">>
         IN <<Line(<<"cloud", "id">>, c.ID),
              Line(<<"cloud", "secret">>, c.Secret),
              Line(<<"cloud", "location_secret">>, c.LocationSecret)>>
            \o (IF c.LocationSecrets = <<>>
                THEN <<Line(at, "[]")>>
                ELSE Concat([i \in 1..Len(c.LocationSecrets) |->
                        <<Line(at \o <<ToString(i), "id">>, c.LocationSecrets[i].ID),
                          Line(at \o <<ToString(i), "secret">>,
                               c.LocationSecrets[i].Secret)>>]))
            \o <<Line(<<"cloud", "tls_certificate">>, c.TLSCertificate),
                 Line(<<"cloud", "tls_private_key">>, c.TLSPrivateKey)>>

MarshalHandler(at, hdlr) ==
    <<Line(at \o <<"type">>, hdlr.Type)>>
    \o (IF DOMAIN hdlr.Config = {}
        THEN <<Line(at \o <<"config">>, "{}")>>
        ELSE Concat([j \in 1..Len(HandlerKeys) |->
                IF HandlerKeys[j] \in DOMAIN hdlr.Config
                THEN <<Line(at \o <<"config", HandlerKeys[j]>>,
                            hdlr.Config[HandlerKeys[j]])>>
                ELSE <<>>]))

MarshalCredentials(at, creds) ==
    IF creds = Nil
    THEN <<Line(at, "null")>>
    ELSE <<Line(at \o <<"type">>, creds[1].Type),
           Line(at \o <<"payload">>, creds[1].Payload)>>

MarshalRemote(at, rem) ==
    <<Line(at \o <<"name">>, rem.Name), Line(at \o <<"secret">>, rem.Secret)>>
    \o MarshalCredentials(at \o <<"auth", "credentials">>, rem.Auth.Credentials)
    \o MarshalCredentials(at \o <<"auth", "signaling_creds">>, rem.Auth.SignalingCreds)

\* json.Marshal and json.MarshalIndent of a Config
Marshal(conf) ==
    MarshalCloud(conf.Cloud)
    \o (IF conf.Remotes = <<>>
        THEN <<Line(<<"remotes">>, "[]")>>
        ELSE Concat([i \in 1..Len(conf.Remotes) |->
                MarshalRemote(<<"remotes", ToString(i)>>, conf.Remotes[i])]))
    \o (IF conf.Auth.Handlers = <<>>
        THEN <<Line(<<"auth", "handlers">>, "[]")>>
        ELSE Concat([i \in 1..Len(conf.Auth.Handlers) |->
                MarshalHandler(<<"auth", "handlers", ToString(i)>>,
                               conf.Auth.Handlers[i])]))
    \o <<Line(<<"network", "bind_address">>, conf.Network.BindAddress),
         Line(<<"enable_web_profile">>, BoolText(conf.EnableWebProfile))>>

\* the value of the leaf at a path
JSONValue(lines, path) ==
    lines[CHOOSE i \in 1..Len(lines) : lines[i].path = path].value

\* the members under a path: the keys of an object or the indexes of an array
JSONMembers(lines, at) ==
    {lines[i].path[Len(at) + 1] :
        i \in {j \in 1..Len(lines) :
                 /\ Len(lines[j].path) > Len(at)
                 /\ SubSeq(lines[j].path, 1, Len(at)) = at}}

JSONLen(lines, at) == Cardinality(JSONMembers(lines, at))

\* whether the value at a path is null
JSONNull(lines, at) ==
    \E i \in 1..Len(lines) : lines[i].path = at /\ lines[i].value = "null"

UnmarshalCredentials(lines, at) ==
    IF JSONNull(lines, at)
    THEN Nil
    ELSE Ptr([Type |-> JSONValue(lines, at \o <<"type">>),
              Payload |-> JSONValue(lines, at \o <<"payload">>)])

UnmarshalCloud(lines) ==
    IF JSONNull(lines, <<"cloud">>)
    THEN Nil
    ELSE Ptr([ID |-> JSONValue(lines, <<"cloud", "id">>),
              Secret |-> JSONValue(lines, <<"cloud", "secret">>),
              LocationSecret |-> JSONValue(lines, <<"cloud", "location_secret">>),
              LocationSecrets |->
                  [i \in 1..JSONLen(lines, <<"cloud", "location_secrets">>) |->
                      [ID |-> JSONValue(lines,
                                 <<"cloud", "location_secrets", ToString(i), "id">>),
                       Secret |-> JSONValue(lines,
                                 <<"cloud", "location_secrets", ToString(i), "secret">>)]],
              TLSCertificate |-> JSONValue(lines, <<"cloud", "tls_certificate">>),
              TLSPrivateKey |-> JSONValue(lines, <<"cloud", "tls_private_key">>)])

\* json.Unmarshal into a fresh Config; the TLSConfig of the result is nil
Unmarshal(lines) ==
    [Cloud |-> UnmarshalCloud(lines),
     Remotes |->
         [i \in 1..JSONLen(lines, <<"remotes">>) |->
             [Name |-> JSONValue(lines, <<"remotes", ToString(i), "name">>),
              Secret |-> JSONValue(lines, <<"remotes", ToString(i), "secret">>),
              Auth |->
                  [Credentials |-> UnmarshalCredentials(lines,
                       <<"remotes", ToString(i), "auth", "credentials">>),
                   SignalingCreds |-> UnmarshalCredentials(lines,
                       <<"remotes", ToString(i), "auth", "signaling_creds">>)]]],
     Auth |->
         [Handlers |->
             [i \in 1..JSONLen(lines, <<"auth", "handlers">>) |->
                 [Type |-> JSONValue(lines, <<"auth", "handlers", ToString(i), "type">>),
                  Config |->
                      [k \in JSONMembers(lines,
                                 <<"auth", "handlers", ToString(i), "config">>) |->
                          JSONValue(lines,
                              <<"auth", "handlers", ToString(i), "config", k>>)]]]],
     Network |-> [BindAddress |-> JSONValue(lines, <<"network", "bind_address">>),
                  TLSConfig |-> Nil],
     EnableWebProfile |-> JSONValue(lines, <<"enable_web_profile">>) = "true"]

mask == "******"

MaskIfSet(v) == IF v # "" THEN mask ELSE v

MaskPayload(creds) ==
    IF creds # Nil THEN Ptr([creds[1] EXCEPT !.Payload = mask]) ELSE creds

\* a sanitizeConfig that leaves the signaling credentials as they are
sanitizeConfigKeepingSignaling(conf) ==
    [conf EXCEPT
        !.Cloud = IF conf.Cloud # Nil
                  THEN Ptr([conf.Cloud[1] EXCEPT
                              !.Secret = MaskIfSet(@),
                              !.LocationSecret = MaskIfSet(@),
                              !.LocationSecrets =
                                  [i \in DOMAIN @ |-> [@[i] EXCEPT !.Secret = MaskIfSet(@)]],
                              !.TLSCertificate = MaskIfSet(@),
                              !.TLSPrivateKey = MaskIfSet(@)])
                  ELSE conf.Cloud,
        !.Auth.Handlers =
            [i \in DOMAIN @ |-> [@[i] EXCEPT !.Config = [k \in DOMAIN @ |-> mask]]],
        !.Remotes =
            [i \in DOMAIN @ |->
                [@[i] EXCEPT !.Secret = MaskIfSet(@),
                             !.Auth.Credentials = MaskPayload(@)]]]

sanitizeConfig(conf) ==
    [conf EXCEPT
        !.Cloud = IF conf.Cloud # Nil
                  THEN Ptr([conf.Cloud[1] EXCEPT
                              !.Secret = MaskIfSet(@),
                              !.LocationSecret = MaskIfSet(@),
                              !.LocationSecrets =
                                  [i \in DOMAIN @ |-> [@[i] EXCEPT !.Secret = MaskIfSet(@)]],
                              !.TLSCertificate = MaskIfSet(@),
                              !.TLSPrivateKey = MaskIfSet(@)])
                  ELSE conf.Cloud,
        !.Auth.Handlers =
            [i \in DOMAIN @ |-> [@[i] EXCEPT !.Config = [k \in DOMAIN @ |-> mask]]],
        !.Remotes =
            [i \in DOMAIN @ |->
                [@[i] EXCEPT !.Secret = MaskIfSet(@),
                             !.Auth.Credentials = MaskPayload(@),
                             !.Auth.SignalingCreds = MaskPayload(@)]]]

\* dmp.DiffMain without the DiffEqual parts: the lines of the left text that
\* the right text does not have are deleted, those of the right text that
\* the left text does not have are inserted
DiffMain(leftMd, rightMd) ==
    LET onLeft == {leftMd[i] : i \in 1..Len(leftMd)}
        onRight == {rightMd[i] : i \in 1..Len(rightMd)}
        deleted(l) == l \notin onRight
        inserted(l) == l \notin onLeft
    IN [i \in 1..Len(SelectSeq(leftMd, deleted)) |->
            [op |-> "delete", text |-> SelectSeq(leftMd, deleted)[i]]]
       \o [i \in 1..Len(SelectSeq(rightMd, inserted)) |->
            [op |-> "insert", text |-> SelectSeq(rightMd, inserted)[i]]]

\* prettyDiff: the text and the error, and in left and right what the
\* caller's snapshots hold after the call; fails stands for a json.Marshal
\* or json.Unmarshal that returns an error
prettyDiff(left, right, fails) ==
    IF fails
    THEN [text |-> <<>>, err |-> TRUE, left |-> left, right |-> right]
    ELSE [text |-> DiffMain(Marshal(sanitizeConfig(Unmarshal(Marshal(left)))),
                            Marshal(sanitizeConfig(Unmarshal(Marshal(right))))),
          err |-> FALSE, left |-> left, right |-> right]

----------------------------------------------------------------------------
(* DiffConfigs on the network and sensitive part of two snapshots: the     *)
(* pretty diff when revealSensitiveConfigDiffs is set, and NetworkEqual.   *)
(* nleft and nright are the caller's snapshots, nfails whether the JSON    *)
(* round trip of prettyDiff returns an error.                              *)

\* the Diff and the error DiffConfigs returns, given what prettyDiff returned
DiffConfigsNetworkAfter(pd) ==
    IF pd.err
    THEN [nil |-> TRUE, err |-> TRUE, NetworkEqual |-> FALSE, PrettyDiff |-> <<>>]
    ELSE [nil |-> FALSE, err |-> FALSE,
          NetworkEqual |-> ~diffNetworkingCfg(pd.left, pd.right),
          PrettyDiff |-> pd.text]

DiffConfigsNetwork(left, right, revealSensitiveConfigDiffs, fails) ==
    DiffConfigsNetworkAfter(
        IF revealSensitiveConfigDiffs
        THEN prettyDiff(left, right, fails)
        ELSE [text |-> <<>>, err |-> FALSE, left |-> left, right |-> right])

\* what the caller's snapshots hold after DiffConfigs
CallerSnapshots(left, right, revealSensitiveConfigDiffs, fails) ==
    IF revealSensitiveConfigDiffs
    THEN [left |-> prettyDiff(left, right, fails).left,
          right |-> prettyDiff(left, right, fails).right]
    ELSE [left |-> left, right |-> right]

BindAddresses == {":8080", ":9090"}

EmptySnapshot ==
    [Cloud |-> Nil, Remotes |-> <<>>, Auth |-> [Handlers |-> <<>>],
     Network |-> [BindAddress |-> ":8080", TLSConfig |-> Nil],
     EnableWebProfile |-> FALSE]

NoNetworkDiff == [nil |-> TRUE, err |-> FALSE, NetworkEqual |-> FALSE, PrettyDiff |-> <<>>]

\* snapshots that differ in their TLS configs, bind address and web profile
NetworkInit ==
    /\ \E lt, rt \in TLSConfigs, rb \in BindAddresses, rw \in BOOLEAN :
          /\ nleft = [EmptySnapshot EXCEPT !.Network.TLSConfig = lt]
          /\ nright = [EmptySnapshot EXCEPT !.Network.TLSConfig = rt,
                                            !.Network.BindAddress = rb,
                                            !.EnableWebProfile = rw]
    /\ nreveal \in BOOLEAN
    /\ nfails \in BOOLEAN
    /\ nfails => nreveal
    /\ ndiff = NoNetworkDiff
    /\ npc = "call"

NetworkIdle ==
    /\ nleft = EmptySnapshot
    /\ nright = EmptySnapshot
    /\ nreveal = FALSE
    /\ nfails = FALSE
    /\ ndiff = NoNetworkDiff
    /\ npc = "idle"

DiffConfigsNetworkCall ==
    /\ npc = "call"
    /\ ndiff' = DiffConfigsNetwork(nleft, nright, nreveal, nfails)
    /\ nleft' = CallerSnapshots(nleft, nright, nreveal, nfails).left
    /\ nright' = CallerSnapshots(nleft, nright, nreveal, nfails).right
    /\ npc' = "done"
    /\ UNCHANGED <<nreveal, nfails>>
    /\ UNCHANGED nonNetworkVars

NetworkNext == DiffConfigsNetworkCall

----------------------------------------------------------------------------
(* Snapshots with secrets for the pretty diff.  A snapshot is built from   *)
(* the set of things it has: a Cloud, one of its secrets, a handler, one   *)
(* of the keys of its map, a remote, one of its secrets, ...               *)

MaxSlots == 2

CloudSlots ==
    {"Cloud", "Secret", "LocationSecret", "LocationSecrets", "TLSCertificate",
     "TLSPrivateKey"}

HandlerSlots == {"Handler", "HandlerK1", "HandlerK2"}

RemoteSlots == {"Remote", "RemoteSecret", "Credentials", "SignalingCreds"}

SlotNames == CloudSlots \cup HandlerSlots \cup RemoteSlots \cup {"SecondRemote", "Bind", "TLS"}

SomeTLSConfig ==
    Ptr([MinVersion |-> 771,
         GetCertificate |-> [cert |-> "certA", err |-> FALSE],
         GetClientCertificate |-> [cert |-> "certA", err |-> FALSE]])

SnapshotOf(S) ==
    [Cloud |->
        IF S \cap CloudSlots = {}
        THEN Nil
        ELSE Ptr([ID |-> "robot",
                  Secret |-> IF "Secret" \in S THEN "s3cr3t" ELSE "",
                  LocationSecret |-> IF "LocationSecret" \in S THEN "s3cr3t" ELSE "",
                  LocationSecrets |->
                      IF "LocationSecrets" \in S
                      THEN <<[ID |-> "loc", Secret |-> "s3cr3t"]>>
                      ELSE <<>>,
                  TLSCertificate |-> IF "TLSCertificate" \in S THEN "cert-pem" ELSE "",
                  TLSPrivateKey |-> IF "TLSPrivateKey" \in S THEN "key-pem" ELSE ""]),
     Remotes |->
        (IF S \cap RemoteSlots = {}
         THEN <<>>
         ELSE <<[Name |-> "r1",
                 Secret |-> IF "RemoteSecret" \in S THEN "hunter2" ELSE "",
                 Auth |->
                    [Credentials |->
                        IF "Credentials" \in S
                        THEN Ptr([Type |-> "api-key", Payload |-> "hunter2"])
                        ELSE Nil,
                     SignalingCreds |->
                        IF "SignalingCreds" \in S
                        THEN Ptr([Type |-> "api-key", Payload |-> "hunter2"])
                        ELSE Nil]]>>)
        \o (IF "SecondRemote" \in S
            THEN <<[Name |-> "r2", Secret |-> "hunter2",
                    Auth |-> [Credentials |-> Nil, SignalingCreds |-> Nil]]>>
            ELSE <<>>),
     Auth |->
        [Handlers |->
            IF S \cap HandlerSlots = {}
            THEN <<>>
            ELSE <<[Type |-> "api-key",
                    Config |-> [k \in {x \in {"k1", "k2"} :
                                          \/ x = "k1" /\ "HandlerK1" \in S
                                          \/ x = "k2" /\ "HandlerK2" \in S}
                                  |-> "t0k3n"]]>>],
     Network |-> [BindAddress |-> IF "Bind" \in S THEN ":9090" ELSE ":8080",
                  TLSConfig |-> IF "TLS" \in S THEN SomeTLSConfig ELSE Nil],
     EnableWebProfile |-> FALSE]

RECURSIVE SubsetsUpTo(_, _)
SubsetsUpTo(S, n) ==
    IF n = 0
    THEN {{}}
    ELSE LET smaller == SubsetsUpTo(S, n - 1)
         IN smaller \cup {s \cup {x} : s \in smaller, x \in S}

SlotsOf(P, side) == {p[2] : p \in {q \in P : q[1] = side}}

\* two snapshots that have at most MaxSlots things between them
PrettyDiffInit ==
    /\ \E P \in SubsetsUpTo({"left", "right"} \X SlotNames, MaxSlots) :
          /\ nleft = SnapshotOf(SlotsOf(P, "left"))
          /\ nright = SnapshotOf(SlotsOf(P, "right"))
    /\ nreveal \in BOOLEAN
    /\ nfails \in BOOLEAN
    /\ nfails => nreveal
    /\ ndiff = NoNetworkDiff
    /\ npc = "call"

----------------------------------------------------------------------------
(* Specifications                                                          *)

vars == <<trieVars, indexVars, diffAllVars, diffConfigsVars, networkVars>>

InitTrie == TrieInit /\ IndexIdle /\ DiffAllIdle /\ DiffConfigsIdle /\ NetworkIdle

SpecTrie == InitTrie /\ [][TrieNext]_vars

InitIndex == IndexInit /\ TrieIdle /\ DiffAllIdle /\ DiffConfigsIdle /\ NetworkIdle

SpecIndex == InitIndex /\ [][IndexNext]_vars

InitDiffAll == DiffAllInit /\ TrieIdle /\ IndexIdle /\ DiffConfigsIdle /\ NetworkIdle

SpecDiffAll == InitDiffAll /\ [][DiffAllNext]_vars

InitDiffConfigs == DiffConfigsInit /\ TrieIdle /\ IndexIdle /\ DiffAllIdle /\ NetworkIdle

SpecDiffConfigs == InitDiffConfigs /\ [][DiffConfigsNext]_vars

InitUnmodified == UnmodifiedInit /\ TrieIdle /\ IndexIdle /\ DiffAllIdle /\ NetworkIdle

SpecUnmodified == InitUnmodified /\ [][DiffConfigsNext]_vars

InitNetwork == NetworkInit /\ TrieIdle /\ IndexIdle /\ DiffAllIdle /\ DiffConfigsIdle

SpecNetwork == InitNetwork /\ [][NetworkNext]_vars

InitPrettyDiff == PrettyDiffInit /\ TrieIdle /\ IndexIdle /\ DiffAllIdle /\ DiffConfigsIdle

SpecPrettyDiff == InitPrettyDiff /\ [][NetworkNext]_vars

----------------------------------------------------------------------------
(* Claims about the trie                                                   *)

NonEmptyKeys == Keys \ {<<>>}

C1_MapState ==
    \A k \in NonEmptyKeys : Get(trie, k, ZeroInt) = stored[k]

C1_MapStep ==
    /\ (call'.op \in {"Set", "Delete"} /\ call'.key # <<>>)
          => ret' = Get(trie, call'.key, ZeroInt)
    /\ (call'.op = "Set" /\ call'.key # <<>>)
          => Get(trie', call'.key, ZeroInt) = [val |-> call'.val, ok |-> TRUE]
    /\ (call'.op = "Delete" /\ call'.key # <<>>)
          => /\ Get(trie', call'.key, ZeroInt) = NotFound(ZeroInt)
             /\ (~stored[call'.key].ok => ret' = NotFound(ZeroInt))
    /\ \A k \in NonEmptyKeys \ {call'.key} :
          Get(trie', k, ZeroInt) = Get(trie, k, ZeroInt)

\* C1: over non-empty keys the trie is a map: Get(k) is the value of the
\* most recent Set(k, v) that no Delete(k) followed, else (zero, false); Set
\* and Delete return what Get(k) returned just before the call; deleting an
\* absent key returns (zero, false); and no call on k changes Get of another
\* key, a suffix or an extension of k included.
C1_TrieIsMap == [](C1_MapState) /\ [][C1_MapStep]_vars

\* "bc" was deleted while its suffix "c" and its extension "abc" stay stored
C1_Witness ==
    /\ call.op = "Delete" /\ call.key = <<98, 99>> /\ ret.ok
    /\ Get(trie, <<99>>, ZeroInt).ok
    /\ Get(trie, <<97, 98, 99>>, ZeroInt).ok
    /\ ~Get(trie, <<98, 99>>, ZeroInt).ok

\* the last n bytes of q
Suffix(q, n) == SubSeq(q, Len(q) - n + 1, Len(q))

StoredAt(k) == IF k \in Keys THEN stored[k] ELSE NotFound(ZeroInt)

\* values of the stored keys that are suffixes of q, shortest suffix first
RECURSIVE StoredSuffixValues(_, _)
StoredSuffixValues(q, n) ==
    IF n = 0
    THEN <<>>
    ELSE LET shorter == StoredSuffixValues(q, n - 1)
         IN IF StoredAt(Suffix(q, n)).ok
            THEN Append(shorter, StoredAt(Suffix(q, n)).val)
            ELSE shorter

\* C2: FindSuffix(q) is exactly the values of the stored keys that are
\* suffixes of q, one per key, by increasing key length; deleted keys and
\* intermediate nodes contribute nothing and do not hide longer suffixes.
C2_FindSuffixExact ==
    /\ \A q \in Keys : FindSuffix(trie, q) = StoredSuffixValues(q, Len(q))
    /\ call.op = "FindSuffix" => found = StoredSuffixValues(call.key, Len(call.key))

\* FindSuffix("abc") with "c" and "abc" stored and the node of "bc" on the
\* path holding no value
C2_Witness ==
    /\ call.op = "FindSuffix" /\ call.key = <<97, 98, 99>>
    /\ stored[<<99>>].ok /\ stored[<<97, 98, 99>>].ok /\ ~stored[<<98, 99>>].ok
    /\ stored[<<99>>].val # stored[<<97, 98, 99>>].val
    /\ found = <<stored[<<99>>].val, stored[<<97, 98, 99>>].val>>

\* C3: every trie operation on the empty key completes without a panic,
\* stores nothing and returns the not-found result.
C3_EmptyKeyIsNoop ==
    (call.key = <<>> /\ call.op \in {"Set", "ComputeIfAbsent", "Get", "Delete", "FindSuffix"})
        => /\ ~panicked
           /\ ret.ok = FALSE
           /\ found = <<>>
           /\ ~stored[<<>>].ok

----------------------------------------------------------------------------
(* Claims about the resource index                                         *)

Found(h) == [node |-> h, ok |-> h # NilHandle]

C4_ExactState ==
    \A n \in NamedNames : GetByName(index, n) = Found(live[n])

C4_ExactStep ==
    /\ (icall'.op = "PutByName" /\ icall'.name \in NamedNames)
          => iret' = Found(GetByName(index, icall'.name).node)
    /\ \A m \in NamedNames \ {icall'.name} :
          GetByName(index', m) = GetByName(index, m)

\* C4: for non-empty base names GetByName(n) is the handle of the most recent
\* PutByName(n, h) that no DeleteByName(n) followed, else not-found;
\* PutByName returns the handle that was in slot n; and a call on n changes
\* GetByName of no other triple, whatever base name, class or remote it has.
C4_IndexIsExact == [](C4_ExactState) /\ [][C4_ExactStep]_vars

\* a local handle is replaced while a remote handle of the same base name and
\* class, or a handle under the base name that is its suffix, stays put
C4_Witness ==
    /\ icall.op = "PutByName"
    /\ icall.name = [Name |-> <<194, 131>>, API |-> "arm", Remote |-> ""]
    /\ iret.ok /\ iret.node # live[icall.name]
    /\ \/ live[[Name |-> <<194, 131>>, API |-> "arm", Remote |-> "r1"]] # NilHandle
       \/ live[[Name |-> <<131>>, API |-> "arm", Remote |-> ""]] # NilHandle

\* C5: All() yields exactly the live pairs: (n, h) is yielded iff
\* GetByName(n) = (h, true), each once, and a bucket with only remote
\* entries yields no pair with an empty remote.
C5_AllYieldsLivePairs ==
    icall.op = "All" =>
        /\ \A p \in BagToSet(iyielded) :
              /\ GetByName(index, p.name) = [node |-> p.node, ok |-> TRUE]
              /\ CopiesIn(p, iyielded) = 1
        /\ \A n \in NamedNames :
              GetByName(index, n).ok
                 => BagIn([name |-> n, node |-> GetByName(index, n).node], iyielded)

\* every stored class map has a bucket and every bucket holds a handle
NoEmptyBuckets(idx) ==
    \A p \in DOMAIN idx :
        idx[p].hasContents =>
            /\ DOMAIN idx[p].contents # {}
            /\ \A api \in DOMAIN idx[p].contents :
                  \/ idx[p].contents[api].local # NilHandle
                  \/ DOMAIN idx[p].contents[api].remote # {}

LiveUnder(l, b) == {n \in NamedNames : n.Name = b /\ l[n] # NilHandle}

C6_CleanupStep ==
    /\ NoEmptyBuckets(index')
    /\ \A b \in BaseNames \ {<<>>} :
          (/\ icall'.op = "DeleteByName" /\ icall'.name.Name = b
           /\ LiveUnder(live, b) # {} /\ LiveUnder(live', b) = {})
             => /\ ~Get(index', b, EmptyMap).ok
                /\ \A p \in BagToSet(IndexAll(index')) : p.name.Name # b

\* C6: no class bucket is left with an empty local slot and no remote
\* entries, no base name is left in the trie without buckets, and after the
\* DeleteByName that removes the last handle under a base name that base
\* name is in no pair of All() and the trie's Get for it reports not-found.
C6_IndexCleanup == [][C6_CleanupStep]_vars

----------------------------------------------------------------------------
(* Claims about diffAll                                                    *)

KeysOf(list) == {getKey(list[i]) : i \in 1..Len(list)}

ItemsOf(list) == {list[i] : i \in 1..Len(list)}

NoRepeatedKey(list) ==
    \A i, j \in 1..Len(list) : getKey(list[i]) = getKey(list[j]) => i = j

\* keys on both sides whose left and right items are equal
UnchangedKeys(left, right) ==
    {k \in KeysOf(left) \cap KeysOf(right) :
        \A l \in ItemsOf(left), r \in ItemsOf(right) :
            (getKey(l) = k /\ getKey(r) = k) => Equals(l, r)}

\* keys on both sides with unequal left and right items
ChangedKeys(left, right) ==
    (KeysOf(left) \cap KeysOf(right)) \ UnchangedKeys(left, right)

Partitioned(left, right, tracked, out) ==
    LET onlyLeft  == KeysOf(left) \ KeysOf(right)
        onlyRight == KeysOf(right) \ KeysOf(left)
        changed   == ChangedKeys(left, right)
        unchanged == UnchangedKeys(left, right)
    IN /\ KeysOf(out.added) = onlyRight
       /\ ItemsOf(out.added) \subseteq ItemsOf(right)
       /\ KeysOf(out.removed) = onlyLeft
       /\ ItemsOf(out.removed) \subseteq ItemsOf(left)
       /\ KeysOf(out.modified) = changed
       /\ ItemsOf(out.modified) \subseteq ItemsOf(right)
       /\ IF tracked
          THEN /\ ~out.unmodified.nil
               /\ KeysOf(out.unmodified.list) = unchanged
               /\ Len(out.unmodified.list) = Cardinality(unchanged)
          ELSE out.unmodified = NilSlice
       /\ Len(out.added) + Len(out.modified) + Len(out.removed) + Cardinality(unchanged)
             = Cardinality(KeysOf(left) \cup KeysOf(right))

\* C7 as stated: for any left and right lists every key is in exactly one of
\* added (only on the right), removed (only on the left), modified (on both
\* sides, unequal, the right-side item) or unchanged, and the four counts add
\* up to the number of distinct keys.
C7_PartitionAnyLists ==
    dpc = "done" => Partitioned(dleft, dright, dtracked, dout)

\* C7 amended: the same, for lists in which no key occurs twice on one side.
C7_PartitionDistinctKeys ==
    (dpc = "done" /\ NoRepeatedKey(dleft) /\ NoRepeatedKey(dright))
        => Partitioned(dleft, dright, dtracked, dout)

\* left [cam1, cam2(A)], right [cam2(B), cam3]
C7_Witness ==
    /\ dpc = "done"
    /\ dleft = <<[key |-> 1, val |-> "A"], [key |-> 2, val |-> "A"]>>
    /\ dright = <<[key |-> 2, val |-> "B"], [key |-> 3, val |-> "A"]>>
    /\ dout.added = <<[key |-> 3, val |-> "A"]>>
    /\ dout.modified = <<[key |-> 2, val |-> "B"]>>
    /\ dout.removed = <<[key |-> 1, val |-> "A"]>>
    /\ dout.different

\* the left items whose key is not on the right, in left order
LeftOnlyItems(left, right) ==
    LET absent(l) == getKey(l) \notin KeysOf(right)
    IN SelectSeq(left, absent)

\* C8 as stated: for any lists removed is the left items whose key is not on
\* the right, in left order, whatever the range order of leftM.
C8_RemovedInLeftOrder ==
    dpc = "done" => dout.removed = LeftOnlyItems(dleft, dright)

\* C8 amended: the same, for left lists in which no key occurs twice.
C8_RemovedInLeftOrderDistinctKeys ==
    (dpc = "done" /\ NoRepeatedKey(dleft))
        => dout.removed = LeftOnlyItems(dleft, dright)

\* two left items are removed, none is on the right
C8_Witness ==
    /\ dpc = "done"
    /\ NoRepeatedKey(dleft)
    /\ Len(dleft) = 2 /\ getKey(dleft[1]) > getKey(dleft[2])
    /\ dout.removed = dleft

----------------------------------------------------------------------------
(* Claims about DiffConfigs                                                *)

Changes(d, c) == Len(d.Added[c]) + Len(d.Modified[c]) + Len(d.Removed[c])

\* C9: ResourcesEqual is true iff Added, Modified and Removed are empty in
\* all six collections; each diffAll call returns true exactly when its
\* collection has an added, modified or removed item, and ResourcesEqual is
\* the negation of the OR of the six.
C9_ResourcesEqualIffNoChange ==
    cpc = "done" =>
        /\ cdiff.ResourcesEqual <=> \A c \in Collections : Changes(cdiff, c) = 0
        /\ \A c \in Collections : cdiff.returned[c] <=> Changes(cdiff, c) > 0
        /\ cdiff.ResourcesEqual <=> ~(\E c \in Collections : cdiff.returned[c])

\* only a remote was removed: the five calls after it return false
C9_Witness ==
    /\ cpc = "done"
    /\ Changes(cdiff, "Remotes") = 1 /\ Len(cdiff.Removed.Remotes) = 1
    /\ \A c \in Collections \ {"Remotes"} : Changes(cdiff, c) = 0
    /\ ~cdiff.ResourcesEqual

\* C10: LogEqual is false exactly when the log configurations differ or a
\* component or service was added, modified or removed; a change confined to
\* the other four collections leaves it true.
C10_LogEqual ==
    cpc = "done" =>
        (~cdiff.LogEqual <=>
            \/ cleft.LogConfig # cright.LogConfig
            \/ Changes(cdiff, "Components") > 0
            \/ Changes(cdiff, "Services") > 0)

\* a package was modified and nothing else changed: LogEqual stays true
C10_Witness ==
    /\ cpc = "done"
    /\ Len(cdiff.Modified.Packages) = 1
    /\ ~cdiff.ResourcesEqual
    /\ cleft.LogConfig = cright.LogConfig
    /\ cdiff.LogEqual

----------------------------------------------------------------------------
(* Claims about the network comparison and the pretty diff                 *)

\* two present TLS configs resolve all four certificates without an error
\* and agree on the version, the server and the client certificate
PresentTLSEqual(l, r) ==
    /\ l.MinVersion = r.MinVersion
    /\ ~l.GetCertificate.err /\ ~r.GetCertificate.err
    /\ l.GetCertificate.cert = r.GetCertificate.cert
    /\ ~l.GetClientCertificate.err /\ ~r.GetClientCertificate.err
    /\ l.GetClientCertificate.cert = r.GetClientCertificate.cert

TLSEqual(leftTLS, rightTLS) ==
    \/ leftTLS = Nil /\ rightTLS = Nil
    \/ /\ leftTLS # Nil /\ rightTLS # Nil
       /\ PresentTLSEqual(leftTLS[1], rightTLS[1])

\* the network, cloud and auth settings other than the TLS config agree
RestEqual(left, right) ==
    /\ left.Cloud = right.Cloud
    /\ left.Auth = right.Auth
    /\ left.EnableWebProfile = right.EnableWebProfile
    /\ left.Network.BindAddress = right.Network.BindAddress

\* C11: in NetworkEqual two absent TLS configs are equal, an absent and a
\* present one differ, two present ones are equal iff their minimum
\* versions, resolved server certificates and resolved client certificates
\* are equal; an error of a certificate callback makes them differ, and
\* DiffConfigs returns an error only when the pretty diff was asked for and
\* its serialization failed.
C11_TLSComparison ==
    npc = "done" =>
        /\ ndiff.err <=> (nreveal /\ nfails)
        /\ ~ndiff.err =>
              /\ ~ndiff.nil
              /\ ndiff.NetworkEqual <=>
                    /\ TLSEqual(nleft.Network.TLSConfig, nright.Network.TLSConfig)
                    /\ RestEqual(nleft, nright)

\* two present configs that agree on everything but for the error the left
\* client certificate callback returns: different, and no error returned
C11_Witness ==
    /\ npc = "done"
    /\ nleft.Network.TLSConfig # Nil /\ nright.Network.TLSConfig # Nil
    /\ nleft.Network.TLSConfig[1].MinVersion = nright.Network.TLSConfig[1].MinVersion
    /\ nleft.Network.TLSConfig[1].GetCertificate = nright.Network.TLSConfig[1].GetCertificate
    /\ ~nleft.Network.TLSConfig[1].GetCertificate.err
    /\ nleft.Network.TLSConfig[1].GetClientCertificate.err
    /\ nleft.Network.TLSConfig[1].GetClientCertificate.cert
          = nright.Network.TLSConfig[1].GetClientCertificate.cert
    /\ RestEqual(nleft, nright)
    /\ ~ndiff.NetworkEqual
    /\ ~ndiff.err /\ ~ndiff.nil

\* the values of a snapshot that must not be shown
SensitiveValues(conf) ==
    ( (IF conf.Cloud = Nil
       THEN {}
       ELSE {conf.Cloud[1].Secret, conf.Cloud[1].LocationSecret,
             conf.Cloud[1].TLSCertificate, conf.Cloud[1].TLSPrivateKey}
            \cup {conf.Cloud[1].LocationSecrets[i].Secret :
                     i \in DOMAIN conf.Cloud[1].LocationSecrets})
      \cup UNION {{conf.Auth.Handlers[i].Config[k] : k \in DOMAIN conf.Auth.Handlers[i].Config} :
                     i \in DOMAIN conf.Auth.Handlers}
      \cup {conf.Remotes[i].Secret : i \in DOMAIN conf.Remotes}
      \cup UNION {{c[1].Payload : c \in {conf.Remotes[i].Auth.Credentials,
                                         conf.Remotes[i].Auth.SignalingCreds} \ {Nil}} :
                     i \in DOMAIN conf.Remotes} )
    \ {""}

\* the paths of the JSON text that hold a sensitive value
IsSensitivePath(path) ==
    LET last == path[Len(path)]
    IN \/ path[1] = "cloud" /\ last \in {"secret", "location_secret", "tls_certificate",
                                         "tls_private_key"}
       \/ path[1] = "auth" /\ Len(path) = 5 /\ path[4] = "config"
       \/ path[1] = "remotes" /\ last \in {"secret", "payload"}

C12_RedactionStep ==
    (npc = "call" /\ npc' = "done") =>
        /\ nleft' = nleft /\ nright' = nright
        /\ ~nreveal => ndiff'.PrettyDiff = <<>>
        /\ \A i \in 1..Len(ndiff'.PrettyDiff) :
              /\ ndiff'.PrettyDiff[i].text.value
                    \notin SensitiveValues(nleft) \cup SensitiveValues(nright)
              /\ IsSensitivePath(ndiff'.PrettyDiff[i].text.path)
                    => ndiff'.PrettyDiff[i].text.value \in {mask, ""}

----------------------------------------------------------------------------
(* Claims about the unmodified resources                                   *)

\* the right-side items whose key is on the left with an equal value, in
\* right-side order
UnchangedItems(left, right) ==
    LET unchanged(r) == \E i \in 1..Len(left) : getKey(left[i]) = getKey(r) /\ Equals(left[i], r)
    IN SelectSeq(right, unchanged)

\* the items DiffConfigs reports as added, modified or removed
ChangedItems(d) ==
    UNION {ItemsOf(d.Added[c]) \cup ItemsOf(d.Modified[c]) \cup ItemsOf(d.Removed[c]) :
              c \in Collections}

UnmodifiedTracked(left, right, d) ==
    /\ left.Revision = right.Revision => d.UnmodifiedResources = <<>>
    /\ left.Revision # right.Revision =>
          d.UnmodifiedResources =
              UnchangedItems(left.Components, right.Components)
              \o UnchangedItems(left.Services, right.Services)
    /\ ItemsOf(d.UnmodifiedResources) \cap ChangedItems(d) = {}

\* C13 as stated: with equal revisions UnmodifiedResources is empty; with
\* different revisions it is the right-side components, then the right-side
\* services, whose key is on the left with an equal value, in right-side
\* order; and none of its items is also in Added, Modified or Removed.
C13_UnmodifiedTracking ==
    cpc = "done" => UnmodifiedTracked(cleft, cright, cdiff)

\* C13 amended: the same, for snapshots in which no key occurs twice among
\* the components and services of the left side, nor among those of the
\* right side.
C13_UnmodifiedTrackingDistinctKeys ==
    (/\ cpc = "done"
     /\ NoRepeatedKey(cleft.Components \o cleft.Services)
     /\ NoRepeatedKey(cright.Components \o cright.Services))
        => UnmodifiedTracked(cleft, cright, cdiff)

\* the revisions differ, a component and a service are on both sides with
\* equal values: the component comes first, whatever the keys
C13_Witness ==
    /\ cpc = "done"
    /\ cleft.Revision # cright.Revision
    /\ Len(cright.Components) = 1 /\ Len(cright.Services) = 1
    /\ getKey(cright.Components[1]) > getKey(cright.Services[1])
    /\ cdiff.UnmodifiedResources = <<cright.Components[1], cright.Services[1]>>

====
